---- MODULE Spec2Model ----
(***************************************************************************)
(* Model of openspec_tui: the screen stack (MainScreen, NewChangeScreen,   *)
(* EditorScreen), the modal push-and-await of MainScreen.new_change, the   *)
(* editor session (change_data, files, text areas) and the files that      *)
(* EditorScreen.action_save writes under openspec/changes/<name>/.         *)
(*                                                                         *)
(* Strings the code inspects (names, feature areas, authors, texts) are    *)
(* sequences of one-character or literal strings; a path is a sequence of  *)
(* path components relative to openspec/changes.                           *)
(***************************************************************************)
EXTENDS Integers, Sequences, FiniteSets, TLC

\* notice is the notification posted by the most recent handler (NoNotice
\* when it posted none); last, confirmed, lastSaved and resolutions record
\* the run: the most recent handler, the record built by the accepted Create,
\* the texts of the session's latest complete save, the number of times the
\* current await was resolved; atPush is the stack and the main menu's list
\* as they were when the modal was last pushed.  tplReq and tplOut are the
\* request and the result of one template instantiation (TemplateSpec).
VARIABLES app, stack, pc, awaitResult, resolutions, editor, fs, notice,
          recent, now, nSessions, nEdits, nSaves, confirmed, lastSaved,
          last, atPush, tplReq, tplOut

vars == <<app, stack, pc, awaitResult, resolutions, editor, fs, notice,
          recent, now, nSessions, nEdits, nSaves, confirmed, lastSaved,
          last, atPush, tplReq, tplOut>>

(* ------------------------------ bounds --------------------------------- *)
\* sessions created, text edits and saves in one run; the last clock value
MaxSessions == 1
MaxEdits == 1
MaxSaves == 2
MaxClock == 1

(* ------------------------- input alphabets ----------------------------- *)
Names == {<<>>, <<"a", "-", "b">>}
Areas == {<<>>, <<"x">>}
Authors == {<<"z">>}
EditTexts == {<<"e", "d", "i", "t">>}

(* ---------------------------- option values ---------------------------- *)
None == <<>>
Some(x) == <<x>>

(* --------------------------- string helpers ---------------------------- *)
Letters == {"a", "b", "c", "x", "y", "z", "A", "B", "C", "X", "Y", "Z"}

Upper(ch) ==
  CASE ch = "a" -> "A" [] ch = "b" -> "B" [] ch = "c" -> "C"
    [] ch = "x" -> "X" [] ch = "y" -> "Y" [] ch = "z" -> "Z"
    [] OTHER -> ch

Lower(ch) ==
  CASE ch = "A" -> "a" [] ch = "B" -> "b" [] ch = "C" -> "c"
    [] ch = "X" -> "x" [] ch = "Y" -> "y" [] ch = "Z" -> "z"
    [] OTHER -> ch

\* str.replace("-", " ")
ReplaceHyphen(s) == [i \in 1..Len(s) |-> IF s[i] = "-" THEN " " ELSE s[i]]

\* str.title(): a letter that follows a non-letter is upper-cased, any other
\* letter is lower-cased.
Title(s) ==
  [i \in 1..Len(s) |->
     IF i = 1 \/ s[i - 1] \notin Letters THEN Upper(s[i]) ELSE Lower(s[i])]

TitleName(name) == Title(ReplaceHyphen(name))

\* datetime.now().isoformat(): the clock value printed as two decimal digits
\* after the literal date part.
Digit(d) ==
  CASE d = 0 -> "0" [] d = 1 -> "1" [] d = 2 -> "2" [] d = 3 -> "3"
    [] d = 4 -> "4" [] d = 5 -> "5" [] d = 6 -> "6" [] d = 7 -> "7"
    [] d = 8 -> "8" [] OTHER -> "9"

IsoFormat(t) == <<"2026-11-04T00:00:", Digit((t \div 10) % 10), Digit(t % 10)>>

(* ------------------------------ templates ------------------------------ *)
Lit(s) == [slot |-> FALSE, v |-> s]
Slot(s) == [slot |-> TRUE, v |-> s]

PROPOSAL_TEMPLATE ==
  <<Lit("# Proposal: "), Slot("name"), Lit("\n\n## Overview ...")>>

TASKS_TEMPLATE ==
  <<Lit("# Implementation Tasks: "), Slot("name"), Lit("\n\n## Overview ...")>>

SPEC_TEMPLATE ==
  <<Lit("# "), Slot("feature_area"), Lit(" Specification Delta ... for the "),
    Slot("name"), Lit(" change ... openspec/specs/"), Slot("feature_area"),
    Lit("/spec.md after approval ...")>>

DESIGN_TEMPLATE ==
  <<Lit("# Design Document: "), Slot("name"),
    Lit("\n\n## Technical Overview ... { \"field1\": \"string\" } ...")>>

SlotsOf(tpl) == {tpl[i].v : i \in {j \in 1..Len(tpl) : tpl[j].slot}}

RECURSIVE Substitute(_, _)
Substitute(tpl, params) ==
  IF tpl = <<>> THEN <<>>
  ELSE (IF Head(tpl).slot THEN params[Head(tpl).v] ELSE <<Head(tpl).v>>)
         \o Substitute(Tail(tpl), params)

\* variant that leaves the marker of a slot that is not supplied in the text
FormatLenient(tpl, params) ==
  [err |-> FALSE,
   text |-> Substitute(tpl, [k \in SlotsOf(tpl) |->
                               IF k \in DOMAIN params THEN params[k]
                               ELSE <<"{", k, "}">>])]

\* str.format with keyword params: KeyError when a referenced slot is not
\* supplied; supplied params the template does not reference are ignored.
Format(tpl, params) ==
  IF SlotsOf(tpl) \subseteq DOMAIN params
    THEN [err |-> FALSE, text |-> Substitute(tpl, params)]
    ELSE [err |-> TRUE, text |-> <<"KeyError">>]

(* ------------------------------ metadata ------------------------------- *)
\* the dict built by NewChangeScreen.create_change
ChangeData(name, area, author, design, t) ==
  [name |-> name, feature_area |-> area, author |-> author,
   include_design |-> design, created_at |-> IsoFormat(t)]

\* variant that stamps created_at with the clock at the time of the dump
JsonDumpStampNow(d) ==
  << <<"name", d.name>>, <<"feature_area", d.feature_area>>,
     <<"author", d.author>>, <<"include_design", d.include_design>>,
     <<"created_at", IsoFormat(now)>> >>

\* json.dump(change_data): the keys in insertion order with their values
JsonDump(d) ==
  << <<"name", d.name>>, <<"feature_area", d.feature_area>>,
     <<"author", d.author>>, <<"include_design", d.include_design>>,
     <<"created_at", d.created_at>> >>

JsonGet(j, key) == j[CHOOSE i \in 1..Len(j) : j[i][1] = key][2]

\* json.load of a file written by JsonDump
JsonLoad(j) ==
  [name |-> JsonGet(j, "name"), feature_area |-> JsonGet(j, "feature_area"),
   author |-> JsonGet(j, "author"),
   include_design |-> JsonGet(j, "include_design"),
   created_at |-> JsonGet(j, "created_at")]

(* ----------------------------- file system ----------------------------- *)
\* paths are relative to openspec/changes; <<>> is that directory itself
Root == <<>>

Prefixes(p) == {SubSeq(p, 1, k) : k \in 0..Len(p)}

\* Path.mkdir(parents=True, exist_ok=True)
Mkdir(disk, p) == [disk EXCEPT !.dirs = @ \cup Prefixes(p)]

\* variant that opens for append: the text is added after the old content
WriteFileAppend(disk, p, c) ==
  [disk EXCEPT !.files =
     [q \in (DOMAIN @) \cup {p} |->
        IF q = p THEN (IF p \in DOMAIN @ THEN @[p] \o c ELSE c) ELSE @[q]]]

\* open(p, "w") followed by write(c)
WriteFile(disk, p, c) ==
  [disk EXCEPT !.files =
     [q \in (DOMAIN @) \cup {p} |-> IF q = p THEN c ELSE @[q]]]

NoDisk == [dirs |-> {}, files |-> [q \in {} |-> <<>>]]

\* a changes directory holding a directory without metadata and a plain file
ForeignDisk ==
  [dirs |-> {Root, <<<<"t", "m", "p">>>>},
   files |-> [q \in {<<<<"R", "E", "A", "D", "M", "E">>>>} |-> <<"notes">>]]

\* Path.iterdir(): the immediate entries of a directory
Entries(disk, d) ==
  {p \in disk.dirs \cup DOMAIN disk.files :
     Len(p) = Len(d) + 1 /\ SubSeq(p, 1, Len(d)) = d}

(* ------------------------------- session ------------------------------- *)
\* variant that instantiates the design template whatever the flag
InitFilesAlwaysDesign(cd) ==
  LET titled == [name |-> TitleName(cd.name)]
      raw == [name |-> cd.name, feature_area |-> cd.feature_area]
  IN [r \in {"proposal", "tasks", "spec", "design"} |->
        CASE r = "proposal" -> Format(PROPOSAL_TEMPLATE, titled)
          [] r = "tasks" -> Format(TASKS_TEMPLATE, titled)
          [] r = "spec" -> Format(SPEC_TEMPLATE, raw)
          [] OTHER -> Format(DESIGN_TEMPLATE, titled)]

\* EditorScreen._init_files: the template of every role instantiated with
\* the metadata; design only when include_design is set
InitFiles(cd) ==
  LET titled == [name |-> TitleName(cd.name)]
      raw == [name |-> cd.name, feature_area |-> cd.feature_area]
      base == [r \in {"proposal", "tasks", "spec"} |->
                 CASE r = "proposal" -> Format(PROPOSAL_TEMPLATE, titled)
                   [] r = "tasks" -> Format(TASKS_TEMPLATE, titled)
                   [] OTHER -> Format(SPEC_TEMPLATE, raw)]
  IN IF cd.include_design
       THEN [r \in {"proposal", "tasks", "spec", "design"} |->
               IF r = "design" THEN Format(DESIGN_TEMPLATE, titled) ELSE base[r]]
       ELSE base

\* EditorScreen.__init__ followed by compose: one TextArea per entry of
\* files, holding that entry's text
NewEditor(cd) ==
  LET f == InitFiles(cd)
  IN [change_data |-> cd,
      current_file |-> "proposal",
      files |-> [r \in DOMAIN f |-> f[r].text],
      texts |-> [r \in DOMAIN f |-> f[r].text]]

InitFilesFails(cd) == \E r \in DOMAIN InitFiles(cd) : InitFiles(cd)[r].err

Ed == editor[1]

(* ------------------------------- screens ------------------------------- *)
Top(s) == s[Len(s)]

\* variant of pop_screen that takes two screens off
PopTwo(s) == SubSeq(s, 1, Len(s) - 2)

\* pop_screen: the stack without its top screen
Pop(s) == SubSeq(s, 1, Len(s) - 1)

Running == app = "running"

\* variant in which the main menu handles input wherever it is on the stack
MainMounted == Running /\ Len(stack) >= 2 /\ stack[2] = "main"

\* a handler of MainScreen can run: the screen is on top and its message
\* pump is not suspended inside new_change
MainActive == Running /\ Top(stack) = "main" /\ pc = "idle"
ModalActive == Running /\ Top(stack) = "modal"
EditorActive == Running /\ Top(stack) = "editor"

Notice(msg, severity, arg) == [msg |-> msg, severity |-> severity, arg |-> arg]
NoNotice == Notice("", "", <<>>)

Event(op, ok, arg) == [op |-> op, ok |-> ok, arg |-> arg]

(* ------------------------- save steps and disks ------------------------ *)
BasePath(ed) == <<ed.change_data.name>>
SpecPath(ed) == BasePath(ed) \o <<<<"specs">>, ed.change_data.feature_area>>

MkdirOp(p) == [mk |-> TRUE, path |-> p, content |-> <<>>]
WriteOp(p, c) == [mk |-> FALSE, path |-> p, content |-> c]

\* variant that writes the texts of self.files, not those of the text areas
SaveOpsFromFiles(ed) ==
  << MkdirOp(BasePath(ed)),
     WriteOp(Append(BasePath(ed), <<"metadata.json">>),
             JsonDump(ed.change_data)),
     WriteOp(Append(BasePath(ed), <<"proposal.md">>), ed.files["proposal"]),
     WriteOp(Append(BasePath(ed), <<"tasks.md">>), ed.files["tasks"]),
     MkdirOp(SpecPath(ed)),
     WriteOp(Append(SpecPath(ed), <<"spec.md">>), ed.files["spec"]) >>
  \o (IF "design" \in DOMAIN ed.files
        THEN <<WriteOp(Append(BasePath(ed), <<"design.md">>),
                       ed.files["design"])>>
        ELSE <<>>)

\* the filesystem steps of EditorScreen.action_save, in program order
SaveOps(ed) ==
  << MkdirOp(BasePath(ed)),
     WriteOp(Append(BasePath(ed), <<"metadata.json">>),
             JsonDump(ed.change_data)),
     WriteOp(Append(BasePath(ed), <<"proposal.md">>), ed.texts["proposal"]),
     WriteOp(Append(BasePath(ed), <<"tasks.md">>), ed.texts["tasks"]),
     MkdirOp(SpecPath(ed)),
     WriteOp(Append(SpecPath(ed), <<"spec.md">>), ed.texts["spec"]) >>
  \o (IF "design" \in DOMAIN ed.files
        THEN <<WriteOp(Append(BasePath(ed), <<"design.md">>),
                       ed.texts["design"])>>
        ELSE <<>>)

\* the disk after the first k steps
RECURSIVE ApplyOps(_, _, _)
ApplyOps(disk, ops, k) ==
  IF k = 0 THEN disk
  ELSE LET d == ApplyOps(disk, ops, k - 1)
       IN IF ops[k].mk THEN Mkdir(d, ops[k].path)
                       ELSE WriteFile(d, ops[k].path, ops[k].content)

\* a changes directory that already holds a change "a-b" saved earlier by
\* this program with feature area "y" and a design document, next to the
\* foreign entries
CatalogDisk ==
  LET ed == NewEditor(ChangeData(<<"a", "-", "b">>, <<"y">>, <<"z">>, TRUE, 0))
  IN ApplyOps(ForeignDisk, SaveOps(ed), Len(SaveOps(ed)))

\* file content that json.load rejects with JSONDecodeError
MalformedJson == <<"{">>

\* a changes directory with a change whose metadata.json is not valid JSON
MalformedDisk ==
  WriteFile(Mkdir(NoDisk, <<<<"b">>>>),
            <<<<"b">>, <<"metadata.json">>>>, MalformedJson)

InitialDisks == {NoDisk, ForeignDisk, CatalogDisk, MalformedDisk}

(* ---------------------------- change catalog --------------------------- *)
MetadataFile(d) == Append(d, <<"metadata.json">>)

\* the directories under the changes directory that hold a metadata.json
CatalogDirs(disk) ==
  {e \in Entries(disk, Root) :
     e \in disk.dirs /\ MetadataFile(e) \in DOMAIN disk.files}

\* json.load succeeds on the file's content
JsonParses(j) == j # MalformedJson

\* json.load raises for some metadata.json that _load_recent_changes opens
ScanRaises(disk) ==
  \E d \in CatalogDirs(disk) : ~JsonParses(disk.files[MetadataFile(d)])

\* MainScreen._load_recent_changes: the directories under the changes
\* directory that hold a metadata.json, as (name, feature_area) lines
RecentLines(disk) ==
  {<<JsonLoad(disk.files[MetadataFile(d)]).name,
     JsonLoad(disk.files[MetadataFile(d)]).feature_area>> :
     d \in CatalogDirs(disk)}

RecentLimit == 10

\* changes[:10] of a listing whose order is the directory enumeration order
RecentChoices(disk) ==
  IF Cardinality(RecentLines(disk)) <= RecentLimit
    THEN {RecentLines(disk)}
    ELSE {c \in SUBSET RecentLines(disk) : Cardinality(c) = RecentLimit}

(* ------------------------------- Init ---------------------------------- *)
Init ==
  /\ now = 0
  /\ app = "starting"
  /\ stack = <<"_default">>
  /\ pc = "idle"
  /\ awaitResult = None
  /\ resolutions = 0
  /\ editor = None
  /\ fs \in InitialDisks
  /\ notice = NoNotice
  /\ recent = [shown |-> FALSE, lines |-> {}]
  /\ nSessions = 0
  /\ nEdits = 0
  /\ nSaves = 0
  /\ confirmed = None
  /\ lastSaved = None
  /\ last = Event("init", TRUE, <<>>)
  /\ atPush = None
  /\ tplReq = None
  /\ tplOut = None

(* ------------------------------ actions -------------------------------- *)
\* OpenSpecTUI.on_mount pushes MainScreen, whose on_mount loads the list;
\* nothing catches what json.load raises there, so a metadata file that
\* does not parse ends the run with the exception
OnMount ==
  /\ app = "starting"
  /\ stack' = Append(stack, "main")
  /\ IF Root \in fs.dirs /\ ScanRaises(fs)
       THEN /\ app' = "crashed"
            /\ recent' = recent
            /\ last' = Event("on_mount", FALSE, <<>>)
       ELSE /\ app' = "running"
            /\ IF Root \in fs.dirs /\ RecentLines(fs) # {}
                 THEN \E c \in RecentChoices(fs) :
                        recent' = [shown |-> TRUE, lines |-> c]
                 ELSE recent' = recent
            /\ last' = Event("on_mount", TRUE, <<>>)
  /\ notice' = NoNotice
  /\ UNCHANGED <<pc, awaitResult, resolutions, editor, fs, now,
                 nSessions, nEdits, nSaves, confirmed, lastSaved,
                 atPush, tplReq, tplOut>>

\* MainScreen.new_change up to its await: push the modal and suspend
NewChange ==
  /\ MainActive
  /\ nSessions < MaxSessions
  /\ stack' = Append(stack, "modal")
  /\ pc' = "awaiting"
  /\ awaitResult' = None
  /\ resolutions' = 0
  /\ atPush' = Some([stack |-> stack, recent |-> recent])
  /\ notice' = NoNotice
  /\ last' = Event("new_change", TRUE, <<>>)
  /\ UNCHANGED <<app, editor, fs, recent, now, nSessions, nEdits,
                 nSaves, confirmed, lastSaved,
                 tplReq, tplOut>>

\* variant of dismiss that resolves the await and leaves the screen on
DismissKeepsScreen(result) ==
  /\ awaitResult' = result
  /\ resolutions' = resolutions + 1
  /\ pc' = "resumable"
  /\ stack' = stack

\* self.dismiss(result) of NewChangeScreen: hand the result to the awaiting
\* caller and pop the modal
Dismiss(result) ==
  /\ awaitResult' = result
  /\ resolutions' = resolutions + 1
  /\ pc' = "resumable"
  /\ stack' = Pop(stack)

\* variant of the validation that looks at the name only
RejectedNameOnly(change_name, feature_area) == change_name = <<>>

\* "if not change_name or not feature_area": an empty string is false
Rejected(change_name, feature_area) ==
  change_name = <<>> \/ feature_area = <<>>

\* NewChangeScreen.create_change with the values of the four inputs
CreateChange(change_name, feature_area, author, include_design) ==
  /\ ModalActive
  /\ IF Rejected(change_name, feature_area)
       THEN /\ notice' = Notice("Change name and feature area are required",
                                "error", <<>>)
            /\ last' = Event("create_change", FALSE,
                             <<change_name, feature_area>>)
            /\ UNCHANGED <<stack, pc, awaitResult, resolutions, confirmed,
                           nSessions>>
       ELSE LET change_data == ChangeData(change_name, feature_area, author,
                                          include_design, now)
            IN /\ Dismiss(Some(change_data))
               /\ confirmed' = Some(change_data)
               /\ nSessions' = nSessions + 1
               /\ last' = Event("create_change", TRUE, <<now>>)
               /\ notice' = NoNotice
  /\ UNCHANGED <<app, editor, fs, recent, now, nEdits, nSaves, lastSaved,
                 atPush, tplReq, tplOut>>

\* variant of cancel that dismisses with a record built from the form
CancelWithForm ==
  /\ ModalActive
  /\ Dismiss(Some(ChangeData(<<"a", "-", "b">>, <<"x">>, <<"z">>, FALSE, now)))
  /\ notice' = NoNotice
  /\ last' = Event("cancel", TRUE, <<>>)
  /\ UNCHANGED <<app, editor, fs, recent, now, nSessions, nEdits,
                 nSaves, confirmed, lastSaved,
                 atPush, tplReq, tplOut>>

\* NewChangeScreen.cancel
Cancel ==
  /\ ModalActive
  /\ Dismiss(None)
  /\ notice' = NoNotice
  /\ last' = Event("cancel", TRUE, <<>>)
  /\ UNCHANGED <<app, editor, fs, recent, now, nSessions, nEdits,
                 nSaves, confirmed, lastSaved,
                 atPush, tplReq, tplOut>>

\* variant that also requires the include_design flag of the result
TruthyDesign(result) == result # None /\ result[1].include_design

\* truth value of the awaited result: None is false, the five-key dict true
Truthy(result) == result # None

\* MainScreen.new_change after its await
ResumeNewChange ==
  /\ Running
  /\ pc = "resumable"
  /\ pc' = "idle"
  /\ IF Truthy(awaitResult)
       THEN IF InitFilesFails(awaitResult[1])
              THEN /\ app' = "crashed"
                   /\ UNCHANGED <<stack, editor, lastSaved>>
              ELSE /\ stack' = Append(stack, "editor")
                   /\ editor' = Some(NewEditor(awaitResult[1]))
                   /\ lastSaved' = None
                   /\ app' = app
       ELSE UNCHANGED <<app, stack, editor, lastSaved>>
  /\ notice' = NoNotice
  /\ last' = Event("resume", TRUE, <<>>)
  /\ UNCHANGED <<awaitResult, resolutions, fs, recent, now,
                 nSessions, nEdits, nSaves, confirmed,
                 atPush, tplReq, tplOut>>

(* ---------------------------- editor screen --------------------------- *)
\* variant in which every edit is written through to disk
SetTextAutosaves(role, text) ==
  /\ EditorActive
  /\ role \in DOMAIN Ed.texts
  /\ nEdits < MaxEdits
  /\ Ed.texts[role] # text
  /\ nEdits' = nEdits + 1
  /\ editor' = Some([Ed EXCEPT !.texts[role] = text])
  /\ fs' = ApplyOps(fs, SaveOps([Ed EXCEPT !.texts[role] = text]),
                  Len(SaveOps(Ed)))
  /\ notice' = NoNotice
  /\ last' = Event("set_text", TRUE, <<>>)
  /\ UNCHANGED <<app, stack, pc, awaitResult, resolutions, recent, now, nSessions, nSaves, confirmed, lastSaved,
                 atPush, tplReq, tplOut>>

\* the user types in the TextArea of one tab
SetText(role, text) ==
  /\ EditorActive
  /\ role \in DOMAIN Ed.texts
  /\ nEdits < MaxEdits
  /\ Ed.texts[role] # text
  /\ nEdits' = nEdits + 1
  /\ editor' = Some([Ed EXCEPT !.texts[role] = text])
  /\ notice' = NoNotice
  /\ last' = Event("set_text", TRUE, <<>>)
  /\ UNCHANGED <<app, stack, pc, awaitResult, resolutions, fs, recent, now, nSessions, nSaves, confirmed, lastSaved,
                 atPush, tplReq, tplOut>>

\* EditorScreen.action_save; failAt = 0 when every filesystem step succeeds,
\* otherwise the step that raises OSError, which nothing in the handler
\* catches: the steps before it stay on disk and the exception leaves the
\* handler
ActionSave(failAt) ==
  /\ EditorActive
  /\ nSaves < MaxSaves
  /\ failAt \in 0..Len(SaveOps(Ed))
  /\ nSaves' = nSaves + 1
  /\ IF failAt = 0
       THEN /\ fs' = ApplyOps(fs, SaveOps(Ed), Len(SaveOps(Ed)))
            /\ notice' = Notice("Saved to", "information", BasePath(Ed))
            /\ lastSaved' = Some(Ed.texts)
            /\ app' = app
       ELSE /\ fs' = ApplyOps(fs, SaveOps(Ed), failAt - 1)
            /\ notice' = NoNotice
            /\ lastSaved' = lastSaved
            /\ app' = "crashed"
  /\ last' = Event("save", failAt = 0,
                   <<failAt, IF lastSaved = None THEN "first"
                             ELSE IF lastSaved = Some(Ed.texts) THEN "same"
                             ELSE "edited">>)
  /\ UNCHANGED <<stack, pc, awaitResult, resolutions, editor, recent, now,
                 nSessions, nEdits, confirmed,
                 atPush, tplReq, tplOut>>

\* variant of action_quit that ends the run, as the application's own quit does
ActionQuitExits ==
  /\ EditorActive
  /\ stack' = Pop(stack)
  /\ app' = "exited"
  /\ editor' = None
  /\ lastSaved' = None
  /\ notice' = NoNotice
  /\ last' = Event("quit", TRUE, <<>>)
  /\ UNCHANGED <<pc, awaitResult, resolutions, fs, recent, now,
                 nSessions, nEdits, nSaves, confirmed,
                 atPush, tplReq, tplOut>>

\* EditorScreen.action_quit: pop the editor, its session goes with it
ActionQuit ==
  /\ EditorActive
  /\ stack' = Pop(stack)
  /\ editor' = None
  /\ lastSaved' = None
  /\ notice' = NoNotice
  /\ last' = Event("quit", TRUE, <<>>)
  /\ UNCHANGED <<app, pc, awaitResult, resolutions, fs, recent, now,
                 nSessions, nEdits, nSaves, confirmed,
                 atPush, tplReq, tplOut>>

\* EditorScreen.action_preview on the active tab
ActionPreview(tab) ==
  /\ EditorActive
  /\ tab \in DOMAIN Ed.texts
  /\ notice' = Notice("Preview: characters", "information",
                      <<Len(Ed.texts[tab])>>)
  /\ last' = Event("preview", TRUE, <<>>)
  /\ UNCHANGED <<app, stack, pc, awaitResult, resolutions, editor, fs,
                 recent, now, nSessions, nEdits, nSaves, confirmed, lastSaved,
                 atPush, tplReq, tplOut>>

(* ----------------------------- main screen ----------------------------- *)
\* MainScreen.list_changes
ListChanges ==
  /\ MainActive
  /\ notice' =
       IF Root \notin fs.dirs
         THEN Notice("No changes directory found. Create a change first!",
                     "warning", <<>>)
         ELSE IF Entries(fs, Root) # {}
                THEN Notice("Found change(s) in openspec/changes/",
                            "information", <<Cardinality(Entries(fs, Root))>>)
                ELSE Notice("No changes found", "warning", <<>>)
  /\ last' = Event("list_changes", TRUE, <<>>)
  /\ UNCHANGED <<app, stack, pc, awaitResult, resolutions, editor, fs,
                 recent, now, nSessions, nEdits, nSaves, confirmed, lastSaved,
                 atPush, tplReq, tplOut>>

\* MainScreen.open_change
OpenChange ==
  /\ MainActive
  /\ notice' = Notice("Feature coming soon", "warning", <<>>)
  /\ last' = Event("open_change", TRUE, <<>>)
  /\ UNCHANGED <<app, stack, pc, awaitResult, resolutions, editor, fs,
                 recent, now, nSessions, nEdits, nSaves, confirmed, lastSaved,
                 atPush, tplReq, tplOut>>

\* MainScreen.about
About ==
  /\ MainActive
  /\ notice' = Notice("About OpenSpec", "information", <<>>)
  /\ last' = Event("about", TRUE, <<>>)
  /\ UNCHANGED <<app, stack, pc, awaitResult, resolutions, editor, fs,
                 recent, now, nSessions, nEdits, nSaves, confirmed, lastSaved,
                 atPush, tplReq, tplOut>>

\* variant of exit_app that leaves by popping the main menu
ExitAppPops ==
  /\ MainActive
  /\ app' = "exited"
  /\ stack' = Pop(stack)
  /\ notice' = NoNotice
  /\ last' = Event("exit_app", TRUE, <<>>)
  /\ UNCHANGED <<pc, awaitResult, resolutions, editor, fs, recent, now,
                 nSessions, nEdits, nSaves, confirmed, lastSaved,
                 atPush, tplReq, tplOut>>

\* MainScreen.exit_app: App.exit() ends the run, no screen is popped by it
ExitApp ==
  /\ MainActive
  /\ app' = "exited"
  /\ notice' = NoNotice
  /\ last' = Event("exit_app", TRUE, <<>>)
  /\ UNCHANGED <<stack, pc, awaitResult, resolutions, editor, fs, recent, now, nSessions, nEdits, nSaves, confirmed, lastSaved,
                 atPush, tplReq, tplOut>>

\* the wall clock read by datetime.now() advances
Tick ==
  /\ Running
  /\ now < MaxClock
  /\ now' = now + 1
  /\ UNCHANGED <<app, stack, pc, awaitResult, resolutions, editor, fs,
                 notice, recent, nSessions, nEdits, nSaves, confirmed, last, lastSaved,
                 atPush, tplReq, tplOut>>

Next ==
  \/ OnMount
  \/ NewChange
  \/ \E n \in Names, a \in Areas, au \in Authors, d \in BOOLEAN :
       CreateChange(n, a, au, d)
  \/ Cancel
  \/ ResumeNewChange
  \/ \E r \in {"proposal", "tasks", "spec", "design"}, t \in EditTexts :
       SetText(r, t)
  \/ \E k \in 0..7 : ActionSave(k)
  \/ ActionQuit
  \/ \E r \in {"proposal", "tasks", "spec", "design"} : ActionPreview(r)
  \/ ListChanges
  \/ OpenChange
  \/ About
  \/ ExitApp
  \/ Tick

Spec == Init /\ [][Next]_vars

\* the event loop runs a continuation whose future has been resolved
FairSpec == Spec /\ WF_vars(ResumeNewChange)

(* ------------------------ template instantiation ----------------------- *)
TemplateNames == {"proposal", "tasks", "spec", "design"}

Template(t) ==
  CASE t = "proposal" -> PROPOSAL_TEMPLATE
    [] t = "tasks" -> TASKS_TEMPLATE
    [] t = "spec" -> SPEC_TEMPLATE
    [] OTHER -> DESIGN_TEMPLATE

\* keyword arguments handed to str.format: any subset of the two slots the
\* templates use and a key none of them references
ParamKeys == {"name", "feature_area", "extra"}
ParamValues == {<<"a", "-", "b">>, <<"x">>}
ParamSets == UNION {[K -> ParamValues] : K \in SUBSET ParamKeys}

\* one call TEMPLATE.format(**params) is about to be made
TInit ==
  /\ tplReq \in {Some([tpl |-> t, params |-> ps]) :
                   t \in TemplateNames, ps \in ParamSets}
  /\ tplOut = None
  /\ app = "starting"
  /\ stack = <<"_default">>
  /\ pc = "idle"
  /\ awaitResult = None
  /\ resolutions = 0
  /\ editor = None
  /\ fs = NoDisk
  /\ notice = NoNotice
  /\ recent = [shown |-> FALSE, lines |-> {}]
  /\ now = 0
  /\ nSessions = 0
  /\ nEdits = 0
  /\ nSaves = 0
  /\ confirmed = None
  /\ lastSaved = None
  /\ last = Event("init", TRUE, <<>>)
  /\ atPush = None

\* the call returns the text or raises KeyError
Instantiate ==
  /\ tplReq # None
  /\ tplOut = None
  /\ tplOut' = Some(Format(Template(tplReq[1].tpl), tplReq[1].params))
  /\ UNCHANGED <<app, stack, pc, awaitResult, resolutions, editor, fs, notice,
                 recent, now, nSessions, nEdits, nSaves, confirmed, lastSaved,
                 last, atPush, tplReq>>

TNext == Instantiate

TemplateSpec == TInit /\ [][TNext]_vars

(* ======================================================================= *)
(*                              properties                                 *)
(* ======================================================================= *)
MainOnTop == stack = <<"_default", "main">>

\* C1 - modal cancellation: after Cancel the await of new_change holds the
\* cancellation sentinel, the modal is off the stack and the main menu is
\* on top; after the handler has resumed with the sentinel there is still
\* no editor screen and no session, and the main menu is the top screen.
ModalCancellation ==
  /\ last.op = "cancel" =>
       /\ pc = "resumable"
       /\ awaitResult = None
       /\ editor = None
       /\ MainOnTop
  /\ (last.op = "resume" /\ awaitResult = None) =>
       /\ pc = "idle"
       /\ editor = None
       /\ MainOnTop

ModalCancellationWitness ==
  last.op = "resume" /\ awaitResult = None /\ pc = "idle" /\ MainOnTop

\* C2 - modal confirmation: after a Create that passed validation the await
\* holds exactly the record handed to dismiss, the modal is already popped
\* and no editor is pushed yet; after the handler has resumed with that
\* record the stack is base, main menu, one editor, and the editor's session
\* carries that same record.
ModalConfirmation ==
  /\ (last.op = "create_change" /\ last.ok) =>
       /\ pc = "resumable"
       /\ confirmed # None
       /\ awaitResult = confirmed
       /\ editor = None
       /\ MainOnTop
  /\ (last.op = "resume" /\ awaitResult # None) =>
       /\ pc = "idle"
       /\ awaitResult = confirmed
       /\ stack = <<"_default", "main", "editor">>
       /\ editor # None
       /\ Ed.change_data = awaitResult[1]

ModalConfirmationWitness ==
  /\ last.op = "resume"
  /\ awaitResult # None
  /\ editor # None
  /\ ~Ed.change_data.include_design
  /\ stack = <<"_default", "main", "editor">>

SaveFailureNonFatal ==
  (last.op = "save" /\ ~last.ok) =>
    /\ app = "running"
    /\ Top(stack) = "editor"
    /\ notice.severity = "error"
    /\ editor # None
    /\ Some(Ed.change_data) = confirmed

\* C6 - validation: after a Create with an empty name or feature area the
\* modal is still the top screen, the await is still pending and
\* unresolved, there is no session, and an error notification was posted;
\* no record with an empty name or feature area ever reaches the await or a
\* session.
ValidationKeepsModal ==
  /\ (last.op = "create_change" /\ ~last.ok) =>
       /\ last.arg[1] = <<>> \/ last.arg[2] = <<>>
       /\ stack = <<"_default", "main", "modal">>
       /\ pc = "awaiting"
       /\ resolutions = 0
       /\ awaitResult = None
       /\ editor = None
       /\ notice = Notice("Change name and feature area are required",
                          "error", <<>>)
  /\ awaitResult # None =>
       (awaitResult[1].name # <<>> /\ awaitResult[1].feature_area # <<>>)
  /\ editor # None =>
       (Ed.change_data.name # <<>> /\ Ed.change_data.feature_area # <<>>)

ValidationKeepsModalWitness ==
  /\ last.op = "create_change"
  /\ ~last.ok
  /\ last.arg[1] # <<>>
  /\ last.arg[2] = <<>>
  /\ Top(stack) = "modal"

RolesFor(design) ==
  IF design THEN {"proposal", "tasks", "spec", "design"}
            ELSE {"proposal", "tasks", "spec"}

\* C7 - session role set: a session's buffers (the entries of files and the
\* text areas composed from them) are proposal, tasks, spec, plus design
\* exactly when the metadata's include_design is set, and no step of a
\* session changes that set.
SessionRoleSet ==
  /\ [](editor # None =>
          /\ DOMAIN Ed.files = RolesFor(Ed.change_data.include_design)
          /\ DOMAIN Ed.texts = RolesFor(Ed.change_data.include_design))
  /\ [][(editor # None /\ editor' # None) =>
          /\ DOMAIN editor'[1].files = DOMAIN Ed.files
          /\ DOMAIN editor'[1].texts = DOMAIN Ed.texts]_vars

SessionRoleSetWitness ==
  /\ editor # None
  /\ ~Ed.change_data.include_design
  /\ DOMAIN Ed.texts = {"proposal", "tasks", "spec"}
  /\ nEdits > 0
  /\ lastSaved # None

\* the path of each role's file below openspec/changes
RolePath(cd, role) ==
  CASE role = "proposal" -> <<cd.name, <<"proposal.md">>>>
    [] role = "tasks" -> <<cd.name, <<"tasks.md">>>>
    [] role = "spec" -> <<cd.name, <<"specs">>, cd.feature_area, <<"spec.md">>>>
    [] OTHER -> <<cd.name, <<"design.md">>>>

MetadataPath(cd) == <<cd.name, <<"metadata.json">>>>

\* the files a save of this session is to write
Layout(ed) ==
  {MetadataPath(ed.change_data)}
    \cup {RolePath(ed.change_data, r) : r \in DOMAIN ed.texts}

SaveDone == last.op = "save" /\ last.ok
SaveStep == last'.op = "save" /\ last'.ok /\ nSaves' = nSaves + 1

\* C8 - save layout: after a successful save metadata.json, proposal.md,
\* tasks.md and specs/<feature_area>/spec.md exist under <name>/, each md
\* file holding the current text of its buffer and metadata.json the
\* metadata; design.md holds the Design text when the session has that
\* buffer, and when it has not the save leaves design.md (like every path
\* outside the layout) as it was.
SaveLayout ==
  /\ [](SaveDone =>
          /\ {Root, <<Ed.change_data.name>>,
              <<Ed.change_data.name, <<"specs">>>>,
              <<Ed.change_data.name, <<"specs">>, Ed.change_data.feature_area>>}
               \subseteq fs.dirs
          /\ Layout(Ed) \subseteq DOMAIN fs.files
          /\ JsonLoad(fs.files[MetadataPath(Ed.change_data)]) = Ed.change_data
          /\ \A r \in {"proposal", "tasks", "spec"} :
               fs.files[RolePath(Ed.change_data, r)] = Ed.texts[r]
          /\ "design" \in DOMAIN Ed.texts =>
               fs.files[RolePath(Ed.change_data, "design")] = Ed.texts["design"])
  /\ [][SaveStep =>
          \A p \in (DOMAIN fs.files \cup DOMAIN fs'.files) \ Layout(Ed) :
            /\ p \in DOMAIN fs.files
            /\ p \in DOMAIN fs'.files
            /\ fs'.files[p] = fs.files[p]]_vars

SaveLayoutWitness ==
  /\ SaveDone
  /\ "design" \notin DOMAIN Ed.texts
  /\ RolePath(Ed.change_data, "design") \notin DOMAIN fs.files
  /\ Ed.texts["spec"] # Ed.files["spec"]
  /\ fs.files[RolePath(Ed.change_data, "spec")] = Ed.texts["spec"]

\* C9 - idempotent re-save: a successful save by a session that has saved
\* before creates no file and no directory, leaves on every layout path
\* the buffer's text as of this save and every other file untouched; when
\* no buffer changed since the session's previous save the disk is left
\* exactly as it was.
IdempotentResave ==
  [][(SaveStep /\ lastSaved # None) =>
       /\ DOMAIN fs'.files = DOMAIN fs.files
       /\ fs'.dirs = fs.dirs
       /\ \A r \in DOMAIN Ed.texts :
            fs'.files[RolePath(Ed.change_data, r)] = Ed.texts[r]
       /\ \A p \in DOMAIN fs.files \ Layout(Ed) : fs'.files[p] = fs.files[p]
       /\ lastSaved = Some(Ed.texts) => fs' = fs]_vars

IdempotentResaveWitness ==
  /\ SaveDone
  /\ last.arg[2] = "edited"
  /\ lastSaved = Some(Ed.texts)
  /\ \E r \in DOMAIN Ed.texts :
       /\ Ed.texts[r] # Ed.files[r]
       /\ fs.files[RolePath(Ed.change_data, r)] = Ed.texts[r]

\* C10 - metadata stability: the session's metadata is the record built
\* when Create was accepted, with created_at the clock of that moment; no
\* step of the session changes it, and once the session has saved, the
\* metadata.json on disk parses to that same record however many saves
\* followed and however far the clock has moved.
MetadataStability ==
  /\ []((last.op = "create_change" /\ last.ok) =>
          confirmed[1].created_at = IsoFormat(last.arg[1]))
  /\ [](editor # None => Some(Ed.change_data) = confirmed)
  /\ [](lastSaved # None =>
          /\ MetadataPath(confirmed[1]) \in DOMAIN fs.files
          /\ JsonLoad(fs.files[MetadataPath(confirmed[1])]) = confirmed[1])
  /\ [][(editor # None /\ editor' # None) =>
          editor'[1].change_data = Ed.change_data]_vars

MetadataStabilityWitness ==
  /\ SaveDone
  /\ last.arg[2] # "first"
  /\ confirmed[1].created_at # IsoFormat(now)
  /\ JsonLoad(fs.files[MetadataPath(confirmed[1])]).created_at
       = confirmed[1].created_at

\* a step of a handler: the clock stands still and something changes
HandlerStep == now' = now /\ vars' # vars

\* C11 - unsaved edits are lost on pop: the step that pops the editor leaves
\* the filesystem exactly as it was, and the only steps that change the
\* filesystem at all are saves made in the editor, so nothing is persisted
\* behind the user's back.
UnsavedEditsLost ==
  /\ [][(Top(stack) = "editor" /\ Top(stack') # "editor") =>
          (fs' = fs /\ last'.op = "quit")]_vars
  /\ [][fs' # fs => (Top(stack) = "editor" /\ last'.op = "save")]_vars

UnsavedEditsLostWitness ==
  /\ last.op = "quit"
  /\ nEdits > 0
  /\ nSaves = 0
  /\ fs \in InitialDisks
  /\ editor = None

MainOps ==
  {"new_change", "resume", "list_changes", "open_change", "about", "exit_app"}
ModalOps == {"create_change", "cancel"}
EditorOps == {"set_text", "save", "quit", "preview"}

ModalCount == Cardinality({i \in 1..Len(stack) : stack[i] = "modal"})

\* C12 - input routing: every handler step is a step of the screen on top
\* (main menu handlers only with the main menu on top, the modal's only
\* with the modal on top, the editor's only with the editor on top); at
\* most one modal, hence one await, is outstanding; while another screen is
\* on top the main menu stays on the stack with its list unchanged.
InputRouting ==
  /\ [][HandlerStep =>
          CASE Top(stack) = "main" -> last'.op \in MainOps
            [] Top(stack) = "modal" -> last'.op \in ModalOps
            [] Top(stack) = "editor" -> last'.op \in EditorOps
            [] OTHER -> last'.op = "on_mount"]_vars
  /\ [](ModalCount <= 1 /\ ((pc = "awaiting") <=> (ModalCount = 1)))
  /\ [][Len(stack) >= 3 =>
          (recent' = recent /\ Len(stack') >= 2 /\ stack'[2] = "main")]_vars

InputRoutingWitness ==
  /\ Top(stack) = "editor"
  /\ stack[2] = "main"
  /\ last.op = "preview"
  /\ pc = "idle"

\* C13 - catalog scan: the scan made when the main menu mounts yields one
\* record per immediate subdirectory holding a metadata file, an empty
\* listing when the changes directory is missing, and never ends the run,
\* whatever the metadata files contain.
CatalogScanTotal ==
  last.op = "on_mount" =>
    /\ app = "running"
    /\ recent.lines \in RecentChoices(fs)
    /\ (Root \notin fs.dirs => recent.lines = {})

FoundCount == IF notice.arg = <<>> THEN 0 ELSE notice.arg[1]

\* C15 - list count: the number List Changes announces is the number of
\* immediate subdirectories of the changes directory that hold a metadata
\* file.
ListCountsChanges ==
  (last.op = "list_changes" /\ Root \in fs.dirs) =>
    FoundCount = Cardinality(CatalogDirs(fs))

\* C16 - pop restores the prior state: after the editor is quit, and after a
\* cancelled modal has been popped, the stack and the main menu's list are
\* what they were when the screen was pushed, the run goes on, no editor
\* session is left, and once the popped screen's handler chain has ended
\* the main menu alone handles input.
PopRestores ==
  /\ (last.op \in {"cancel", "quit"} \/ (last.op = "resume" /\ awaitResult = None)) =>
       /\ atPush # None
       /\ stack = atPush[1].stack
       /\ recent = atPush[1].recent
       /\ app = "running"
       /\ editor = None
  /\ (last.op = "quit" \/ (last.op = "resume" /\ awaitResult = None)) => MainActive

PopRestoresWitness ==
  /\ last.op = "quit"
  /\ atPush # None
  /\ stack = atPush[1].stack
  /\ MainActive
  /\ nSaves > 0

\* the files on disk below the directory of the session's change
FilesUnder(disk, ed) ==
  {q \in DOMAIN disk.files : Len(q) >= 1 /\ q[1] = ed.change_data.name}

\* C17 - change-name uniqueness: a session saves into a directory that
\* already exists only when it is the session that created it, and after a
\* save the change directory holds this session's files only.
UniqueChangeNames ==
  /\ [][(last'.op = "save" /\ nSaves' = nSaves + 1 /\ BasePath(Ed) \in fs.dirs)
          => lastSaved # None]_vars
  /\ [](SaveDone => FilesUnder(fs, Ed) \subseteq Layout(Ed))

Shapes ==
  {<<"_default", "main">>, <<"_default", "main", "modal">>,
   <<"_default", "main", "editor">>}

\* C18 - stack shape: from the mount on the screens above the toolkit's base
\* screen are exactly [Main], [Main, Modal] or [Main, Editor] (before the
\* mount only the base screen exists); an editor session exists exactly
\* while the editor is on top, and the editor is pushed only onto [Main],
\* never onto a modal that is still open.
StackShape ==
  /\ [](IF app = "starting" THEN stack = <<"_default">> ELSE stack \in Shapes)
  /\ []((editor # None) <=> (Top(stack) = "editor"))
  /\ [][(Top(stack') = "editor" /\ Top(stack) # "editor") =>
          stack = <<"_default", "main">>]_vars

StackShapeWitness ==
  /\ stack = <<"_default", "main", "editor">>
  /\ last.op = "set_text"
  /\ editor # None

\* C19 - recent list freshness: whenever the main menu is on top its
\* recent-changes list is the catalog on disk (up to the first ten), so a
\* change saved in the editor is listed once the editor is quit.
RecentReflectsDisk ==
  (Running /\ Top(stack) = "main") => recent.lines \in RecentChoices(fs)

\* C14 - template totality: for each of the four templates an
\* instantiation that supplies every slot the template references succeeds,
\* its text holds the supplied values in place of the slots with no slot
\* marker left, and params the template does not reference change nothing;
\* an instantiation that misses a referenced slot fails with KeyError.
TemplateTotality ==
  tplOut # None =>
    LET tpl == Template(tplReq[1].tpl)
        ps == tplReq[1].params
        out == tplOut[1]
        used == [k \in SlotsOf(tpl) \cap DOMAIN ps |-> ps[k]]
    IN IF SlotsOf(tpl) \subseteq DOMAIN ps
         THEN /\ ~out.err
              /\ out.text = Substitute(tpl, used)
              /\ \A i \in 1..Len(out.text) : out.text[i] \notin {"{", "}"}
              /\ \A k \in SlotsOf(tpl) :
                   \E i \in 1..Len(out.text) :
                     SubSeq(out.text, i, i + Len(ps[k]) - 1) = ps[k]
         ELSE /\ out.err
              /\ out.text = <<"KeyError">>

TemplateTotalityWitness ==
  /\ tplOut # None
  /\ tplReq[1].tpl = "spec"
  /\ DOMAIN tplReq[1].params = ParamKeys
  /\ ~tplOut[1].err
  /\ tplOut[1].text # <<>>

====
